---- MODULE Spec2Model ----
(***************************************************************************)
(* The slot-finding engine of the scheduler:                               *)
(*   src/backend/scheduler_algorithm.py, class SchedulerAlgorithm.         *)
(*                                                                         *)
(* Time is counted in minutes.  A datetime is a record                     *)
(*   [wall |-> minutes since Monday 00:00 on its own clock,                *)
(*    off  |-> its UTC offset in minutes (0 when naive),                   *)
(*    aware |-> whether it carries a tzinfo].                              *)
(* A (start, end) tuple of the code is the TLA+ tuple <<start, end>>.      *)
(***************************************************************************)
EXTENDS Integers, Sequences, FiniteSets, TLC

VARIABLES
    pc,               \* "call" before the operation runs, "returned" after
    op,               \* the operation that ran
    start_time,       \* date_range[0] / argument start_time
    end_time,         \* date_range[1] / argument end_time
    calendar,         \* what the free/busy query holds for 'primary'
    busy_ranges,      \* argument busy_ranges of _find_free_slots
    duration_minutes, \* argument duration_minutes of _find_free_slots
    merged_busy,      \* local merged_busy of _find_free_slots
    free_slots,       \* value returned by _find_free_slots
    slots,            \* argument slots of the filter / rank functions
    time_preference,  \* argument time_preference / preferred_time
    local_offset,     \* UTC offset of the system time zone (astimezone())
    current,          \* local current of the empty-calendar walk of _find_free_slots
    filtered_slots,   \* value returned by _filter_by_time_preference
    duration,         \* request parameter duration
    buffer_time,      \* request parameter buffer_time: <<>> (None) or <<before, after>>
    priority,         \* request parameter priority
    activity_type,    \* request parameter activity_type
    api_failed,       \* whether the free/busy query raised
    result,           \* value returned by the operation
    raised,           \* the exception the operation ended with, or "none"
    current_params,   \* SchedulerApp.current_params
    selected_slot,    \* argument slot of SchedulerApp._create_event
    events,           \* the events created on the calendar, in order
    request_message,  \* request.message of the /chat request
    offered,          \* followUp.options of the response the message answers
    response          \* the ChatResponse returned by process_chat_message

\* the state of the chat endpoint (src/backend/app/api/chat.py)
chatVars == <<request_message, offered, response>>

vars == <<pc, op, start_time, end_time, calendar, busy_ranges, duration_minutes,
          merged_busy, free_slots, slots, time_preference, local_offset, current, chatVars,
          filtered_slots, duration, buffer_time, priority, activity_type,
          api_failed, result, raised, current_params, selected_slot, events>>

\* the state of the front end (src/main.py)
appVars == <<current_params, selected_slot, events>>

----------------------------------------------------------------------------
(* Bounds of the model. *)

\* number of half-hour grid steps after the first grid point
MaxTick == 4
\* longest busy list
MaxBusy == 2
\* longest slot list handed to the filter
MaxSlots == 2
\* longest busy list the free/busy query delivers to a whole request
MaxCalendar == 1

(* Program constants. *)
MinutesPerHour == 60
MinutesPerDay == 24 * MinutesPerHour
MorningFrom == 5
AfternoonFrom == 12
EveningFrom == 17
EveningTo == 23

----------------------------------------------------------------------------
(* datetime *)

Naive(w) == [wall |-> w, off |-> 0, aware |-> FALSE]
Aware(w, o) == [wall |-> w, off |-> o, aware |-> TRUE]

\* the instant on the UTC time line (what aware datetimes are compared by)
Utc(d) == d.wall - d.off

\* d if d.tzinfo else d.replace(tzinfo=datetime.timezone.utc)
AssumeUtc(d) == IF d.aware THEN d ELSE Aware(d.wall, 0)

\* d + datetime.timedelta(minutes=m)
Plus(d, m) == [d EXCEPT !.wall = @ + m]

\* the cursor step of the empty-calendar walk: one hour later, minutes zeroed,
\* in the time zone of the cursor
NextHourPlain(cursor) == Plus(cursor, MinutesPerHour)
NextHour(cursor) ==
    LET next_hour == Plus(cursor, MinutesPerHour)
    IN  [next_hour EXCEPT !.wall = (@ \div MinutesPerHour) * MinutesPerHour]

----------------------------------------------------------------------------
(* SchedulerAlgorithm._find_free_slots *)

Front(s) == SubSeq(s, 1, Len(s) - 1)
Last(s) == s[Len(s)]

\* while current + duration <= end_time: append (current, current + duration),
\* then move the cursor to the next hour
RECURSIVE EmptyWalk(_, _, _)
EmptyWalk(cursor, end, dur) ==
    IF Utc(cursor) + dur <= Utc(end)
    THEN <<<<cursor, Plus(cursor, dur)>>>> \o EmptyWalk(NextHour(cursor), end, dur)
    ELSE <<>>

\* a comprehension that gives a tzinfo to the start of every busy period only
NormaliseBusyStarts(busy) ==
    [i \in 1..Len(busy) |-> <<AssumeUtc(busy[i][1]), busy[i][2]>>]

\* the list comprehension that gives every busy bound a tzinfo
NormaliseBusy(busy) ==
    [i \in 1..Len(busy) |-> <<AssumeUtc(busy[i][1]), AssumeUtc(busy[i][2])>>]

\* list.sort(key=lambda x: x[0]) is stable: an element goes behind every
\* element whose start is not later than its own
RECURSIVE InsertByStart(_, _)
InsertByStart(x, sorted) ==
    IF sorted = <<>> THEN <<x>>
    ELSE IF Utc(Last(sorted)[1]) <= Utc(x[1]) THEN Append(sorted, x)
    ELSE Append(InsertByStart(x, Front(sorted)), Last(sorted))

RECURSIVE SortByStart(_)
SortByStart(busy) ==
    IF busy = <<>> THEN <<>>
    ELSE InsertByStart(Last(busy), SortByStart(Front(busy)))

\* busy[0] > merged_busy[-1][1]
StartsAfterTouching(busy, last) == Utc(busy[1]) >= Utc(last[2])
StartsAfter(busy, last) == Utc(busy[1]) > Utc(last[2])

\* max(a, b) of two datetimes: the first one unless the second is later
MaxEnd(a, b) == IF Utc(b) > Utc(a) THEN b ELSE a

\* the merge loop over the sorted busy list
RECURSIVE MergeBusy(_)
MergeBusy(busy) ==
    IF busy = <<>> THEN <<>>
    ELSE LET merged == MergeBusy(Front(busy))
             b == Last(busy)
         IN  IF merged = <<>> \/ StartsAfter(b, Last(merged))
             THEN Append(merged, b)
             ELSE Append(Front(merged),
                         <<Last(merged)[1], MaxEnd(Last(merged)[2], b[2])>>)

\* busy_start - current_time >= duration, end_time - current_time >= duration
FitsAnyGap(from, to, dur) == Utc(to) - Utc(from) > 0
FitsStrictly(from, to, dur) == Utc(to) - Utc(from) > dur
Fits(from, to, dur) == Utc(to) - Utc(from) >= dur

\* the loop over merged_busy: the slots found so far and the cursor
RECURSIVE GapWalkStuck(_, _, _)
GapWalkStuck(merged, start, dur) ==
    IF merged = <<>> THEN [free_slots |-> <<>>, current_time |-> start]
    ELSE LET before == GapWalkStuck(Front(merged), start, dur)
             busy_start == Last(merged)[1]
         IN  [free_slots |->
                 IF Fits(before.current_time, busy_start, dur)
                 THEN Append(before.free_slots, <<before.current_time, busy_start>>)
                 ELSE before.free_slots,
              current_time |-> before.current_time]

RECURSIVE GapWalkPrepend(_, _, _)
GapWalkPrepend(merged, start, dur) ==
    IF merged = <<>> THEN [free_slots |-> <<>>, current_time |-> start]
    ELSE LET before == GapWalkPrepend(Front(merged), start, dur)
             busy_start == Last(merged)[1]
             busy_end == Last(merged)[2]
         IN  [free_slots |->
                 IF Fits(before.current_time, busy_start, dur)
                 THEN <<<<before.current_time, busy_start>>>> \o before.free_slots
                 ELSE before.free_slots,
              current_time |-> busy_end]

RECURSIVE GapWalk(_, _, _)
GapWalk(merged, start, dur) ==
    IF merged = <<>> THEN [free_slots |-> <<>>, current_time |-> start]
    ELSE LET before == GapWalk(Front(merged), start, dur)
             busy_start == Last(merged)[1]
             busy_end == Last(merged)[2]
         IN  [free_slots |->
                 IF Fits(before.current_time, busy_start, dur)
                 THEN Append(before.free_slots, <<before.current_time, busy_start>>)
                 ELSE before.free_slots,
              current_time |-> busy_end]

\* the merged_busy local: only the busy branch builds it
MergedBusyOf(busy) ==
    IF busy = <<>> THEN <<>> ELSE MergeBusy(SortByStart(NormaliseBusy(busy)))

FindFreeSlots(start, end, busy, dur) ==
    LET s == AssumeUtc(start)
        e == AssumeUtc(end)
    IN  IF busy = <<>> THEN EmptyWalk(s, e, dur)
        ELSE LET walk == GapWalk(MergedBusyOf(busy), s, dur)
             IN  IF Fits(walk.current_time, e, dur)
                 THEN Append(walk.free_slots, <<walk.current_time, e>>)
                 ELSE walk.free_slots

----------------------------------------------------------------------------
(* SchedulerAlgorithm._filter_by_time_preference *)

\* the hour the filter looks at: the local hour of an aware start
\* (start.astimezone().hour), the raw hour field of a naive one
StartHour(start, offset) ==
    IF start.aware
    THEN ((Utc(start) + offset) \div MinutesPerHour) % 24
    ELSE (start.wall \div MinutesPerHour) % 24

\* the condition under which a slot is kept
MatchesThroughNoon(preference, hour) ==
    \/ preference = "morning" /\ hour \in MorningFrom..AfternoonFrom
    \/ preference = "afternoon" /\ hour \in AfternoonFrom..EveningFrom
    \/ preference = "evening" /\ hour \in EveningFrom..EveningTo
Matches(preference, hour) ==
    \/ preference = "morning" /\ hour \in MorningFrom..(AfternoonFrom - 1)
    \/ preference = "afternoon" /\ hour \in AfternoonFrom..(EveningFrom - 1)
    \/ preference = "evening" /\ hour \in EveningFrom..(EveningTo - 1)

\* a loop that puts every matching slot in front of those collected before
KeepNewestFirst(sl, preference, offset) ==
    LET kept(slot) == Matches(preference, StartHour(slot[1], offset))
        inOrder == SelectSeq(sl, kept)
    IN  [i \in 1..Len(inOrder) |-> inOrder[Len(inOrder) + 1 - i]]

\* the loop that collects the matching slots
Keep(sl, preference, offset) ==
    LET kept(slot) == Matches(preference, StartHour(slot[1], offset))
    IN  SelectSeq(sl, kept)

FilterWithoutFallback(sl, preference, offset) ==
    IF preference = "no preference" \/ sl = <<>> THEN sl
    ELSE Keep(sl, preference, offset)
FilterByTimePreference(sl, preference, offset) ==
    IF preference = "no preference" \/ sl = <<>> THEN sl
    ELSE LET kept == Keep(sl, preference, offset)
         IN  IF kept = <<>> /\ sl # <<>> THEN <<sl[1]>> ELSE kept

----------------------------------------------------------------------------
(* Scoring and ranking *)

\* start.time() and start.weekday(): read off the datetime's own clock
TimeOfDay(d) == d.wall % MinutesPerDay
Weekday(d) == (d.wall \div MinutesPerDay) % 7

\* sorted(..., key=lambda x: x[2], reverse=True) is stable: an element goes
\* behind every element whose score is not lower than its own
\* a sort that is not stable: an element goes in front of its equals
RECURSIVE InsertBeforeEquals(_, _)
InsertBeforeEquals(x, sorted) ==
    IF sorted = <<>> THEN <<x>>
    ELSE IF Last(sorted)[3] > x[3] THEN Append(sorted, x)
    ELSE Append(InsertBeforeEquals(x, Front(sorted)), Last(sorted))

RECURSIVE InsertByScore(_, _)
InsertByScore(x, sorted) ==
    IF sorted = <<>> THEN <<x>>
    ELSE IF Last(sorted)[3] >= x[3] THEN Append(sorted, x)
    ELSE Append(InsertByScore(x, Front(sorted)), Last(sorted))

RECURSIVE SortByScore(_)
SortByScore(scored) ==
    IF scored = <<>> THEN <<>>
    ELSE InsertByScore(Last(scored), SortByScore(Front(scored)))

WithoutScore(scored) == [i \in 1..Len(scored) |-> <<scored[i][1], scored[i][2]>>]

\* a score that gives an urgent request no bonus for working hours
RankScoreUrgentAnyHour(start, prio) ==
    (IF prio <= 3 /\ 9 * MinutesPerHour <= TimeOfDay(start)
        /\ TimeOfDay(start) < 17 * MinutesPerHour
     THEN 15 ELSE 10)
    * (IF Weekday(start) < 5 THEN 12 ELSE 10)
    * prio

\* _rank_slots: the score, times 300 (1.0 is 100 * 3, priority / 3.0 is priority)
RankScore(start, prio) ==
    (IF 9 * MinutesPerHour <= TimeOfDay(start) /\ TimeOfDay(start) < 17 * MinutesPerHour
     THEN 15 ELSE 10)
    * (IF Weekday(start) < 5 THEN 12 ELSE 10)
    * prio

RankSlots(sl, prio) ==
    WithoutScore(SortByScore(
        [i \in 1..Len(sl) |-> <<sl[i][1], sl[i][2], RankScore(sl[i][1], prio)>>]))

\* _filter_slots_for_individual: the score, times 10
ActivityScore(start, activity) ==
    IF activity = "exercise"
    THEN (IF TimeOfDay(start) < 12 * MinutesPerHour THEN 15 ELSE 10)
    ELSE IF activity = "work"
    THEN (IF 9 * MinutesPerHour <= TimeOfDay(start) /\ TimeOfDay(start) < 17 * MinutesPerHour
          THEN 15 ELSE 8)
    ELSE (IF TimeOfDay(start) >= 17 * MinutesPerHour \/ Weekday(start) >= 5
          THEN 15 ELSE 10)

FilterSlotsForIndividual(sl, preference, activity, offset) ==
    LET time_filtered == FilterByTimePreference(sl, preference, offset)
    IN  WithoutScore(SortByScore(
            [i \in 1..Len(time_filtered) |->
                <<time_filtered[i][1], time_filtered[i][2],
                  ActivityScore(time_filtered[i][1], activity)>>]))

\* a ranking that orders urgent requests as _rank_slots does
RankIndividualByPriority(sl, activity, prio) ==
    IF prio > 3 THEN RankSlots(sl, prio) ELSE sl

\* _rank_individual_slots
RankIndividualSlots(sl, activity, prio) == sl

----------------------------------------------------------------------------
(* Inputs *)

\* half-hour grid starting Wednesday 08:30
Times == {2 * MinutesPerDay + 510 + 30 * k : k \in 0..MaxTick}
Durations == {30, 60}

\* busy periods as the free/busy query delivers them: UTC, start before end
BusyIntervals ==
    {<<Aware(p[1], 0), Aware(p[2], 0)>> : p \in {q \in Times \X Times : q[1] < q[2]}}
BusyLists == UNION {[1..n -> BusyIntervals] : n \in 0..MaxBusy}

NoTime == Naive(0)
\* followUp=None
NoFollowUp == [type |-> "none", content |-> "", options |-> <<>>]
\* no request was answered yet
NoResponse == [type |-> "none", content |-> "", followUp |-> NoFollowUp, slots |-> <<>>]
\* current_params before a flow filled it
NoParams == [collaborative |-> FALSE, duration |-> 0, buffer_time |-> <<>>]
Preferences == {"morning", "afternoon", "evening", "no preference", "night"}
LocalOffsets == {0, -300}

----------------------------------------------------------------------------
(* _find_free_slots called on its own *)

InitEngine ==
    /\ pc = "call"
    /\ op = "_find_free_slots"
    /\ start_time \in {Naive(t) : t \in Times}
    /\ end_time \in {Naive(t) : t \in Times}
    /\ busy_ranges \in BusyLists
    /\ duration_minutes \in Durations
    /\ calendar = <<>>
    /\ merged_busy = <<>>
    /\ free_slots = <<>>
    /\ slots = <<>>
    /\ time_preference = "no preference"
    /\ local_offset = 0
    /\ current = NoTime
    /\ request_message = <<>>
    /\ offered = <<>>
    /\ response = NoResponse
    /\ filtered_slots = <<>>
    /\ duration = 0
    /\ buffer_time = <<>>
    /\ priority = 0
    /\ activity_type = "none"
    /\ api_failed = FALSE
    /\ result = <<>>
    /\ raised = "none"
    /\ current_params = NoParams
    /\ selected_slot = <<>>
    /\ events = <<>>

FindFreeSlotsCall ==
    /\ pc = "call"
    /\ op = "_find_free_slots"
    /\ pc' = "returned"
    /\ merged_busy' = MergedBusyOf(busy_ranges)
    /\ free_slots' = FindFreeSlots(start_time, end_time, busy_ranges, duration_minutes)
    /\ result' = free_slots'
    /\ UNCHANGED <<op, start_time, end_time, calendar, busy_ranges, duration_minutes,
                   slots, time_preference, local_offset, current, chatVars, filtered_slots, duration,
                   buffer_time, priority, activity_type, api_failed, raised, appVars>>

NextEngine == FindFreeSlotsCall

SpecEngine == InitEngine /\ [][NextEngine]_vars

----------------------------------------------------------------------------
(* _filter_by_time_preference called on its own, and the two requests *)

\* starts on both sides of every day-part bound, Wednesday
SlotWalls ==
    {2 * MinutesPerDay + h * MinutesPerHour + m :
        h \in {4, 5, 11, 12, 16, 17, 22, 23}, m \in {0}} \cup
    {2 * MinutesPerDay + 11 * MinutesPerHour + 30}
SlotInputs ==
    {<<Naive(w), Naive(w + 30)>> : w \in SlotWalls} \cup
    {<<Aware(w, 0), Aware(w + 30, 0)>> : w \in SlotWalls}
SlotLists == UNION {[1..n -> SlotInputs] : n \in 0..MaxSlots}

\* a request asks for the rest of the grid, from its first or second point
LastTime == 2 * MinutesPerDay + 510 + 30 * MaxTick
RequestStarts == {2 * MinutesPerDay + 510, 2 * MinutesPerDay + 540}
CalendarLists == UNION {[1..n -> BusyIntervals] : n \in 0..MaxCalendar}
Buffers == {<<>>, <<0, 30>>, <<30, 30>>}
Activities == {"work", "exercise", "personal"}
Priorities == {1, 5}

InitSelect ==
    /\ pc = "call"
    /\ op = "_filter_by_time_preference"
    /\ slots \in SlotLists
    /\ time_preference \in Preferences
    /\ local_offset \in LocalOffsets
    /\ current = NoTime
    /\ request_message = <<>>
    /\ offered = <<>>
    /\ response = NoResponse
    /\ start_time = NoTime
    /\ end_time = NoTime
    /\ calendar = <<>>
    /\ busy_ranges = <<>>
    /\ duration_minutes = 0
    /\ merged_busy = <<>>
    /\ free_slots = <<>>
    /\ filtered_slots = <<>>
    /\ duration = 0
    /\ buffer_time = <<>>
    /\ priority = 0
    /\ activity_type = "none"
    /\ api_failed = FALSE
    /\ result = <<>>
    /\ raised = "none"
    /\ current_params = NoParams
    /\ selected_slot = <<>>
    /\ events = <<>>

InitRequest ==
    /\ pc = "call"
    /\ op \in {"find_collaborative_slot", "find_individual_slot"}
    /\ start_time \in {Naive(t) : t \in RequestStarts}
    /\ end_time = Naive(LastTime)
    /\ calendar \in CalendarLists
    /\ local_offset \in LocalOffsets
    /\ current = NoTime
    /\ request_message = <<>>
    /\ offered = <<>>
    /\ response = NoResponse
    /\ slots = <<>>
    /\ time_preference = "no preference"
    /\ busy_ranges = <<>>
    /\ duration_minutes = 0
    /\ merged_busy = <<>>
    /\ free_slots = <<>>
    /\ filtered_slots = <<>>
    /\ duration = 0
    /\ buffer_time = <<>>
    /\ priority = 0
    /\ activity_type = "none"
    /\ api_failed = FALSE
    /\ result = <<>>
    /\ raised = "none"
    /\ current_params = NoParams
    /\ selected_slot = <<>>
    /\ events = <<>>

Init == InitSelect \/ InitRequest

FilterByTimePreferenceCall ==
    /\ pc = "call"
    /\ op = "_filter_by_time_preference"
    /\ pc' = "returned"
    /\ filtered_slots' = FilterByTimePreference(slots, time_preference, local_offset)
    /\ result' = filtered_slots'
    /\ UNCHANGED <<op, start_time, end_time, calendar, busy_ranges, duration_minutes,
                   merged_busy, free_slots, slots, time_preference, local_offset, current, chatVars,
                   duration, buffer_time, priority, activity_type, api_failed,
                   raised, appVars>>

\* the periods of the calendar whether the query raised or not
GetBusyPeriodsStale(failed) == calendar

\* CalendarManager.get_busy_periods for ['primary']: the periods of the
\* calendar, or no period at all when the query raised
GetBusyPeriods(failed) == IF failed THEN <<>> ELSE calendar

FindCollaborativeSlot ==
    /\ pc = "call"
    /\ op = "find_collaborative_slot"
    /\ \E d \in Durations, p \in Priorities, preferred_time \in Preferences,
          failed \in BOOLEAN :
          LET all_busy_periods == GetBusyPeriods(failed)
              common_slots == FindFreeSlots(start_time, end_time, all_busy_periods, d)
              filtered == FilterByTimePreference(common_slots, preferred_time, local_offset)
          IN  /\ duration' = d
              /\ priority' = p
              /\ time_preference' = preferred_time
              /\ api_failed' = failed
              /\ busy_ranges' = all_busy_periods
              /\ duration_minutes' = d
              /\ merged_busy' = MergedBusyOf(all_busy_periods)
              /\ free_slots' = common_slots
              /\ slots' = common_slots
              /\ filtered_slots' = filtered
              /\ result' = RankSlots(filtered, p)
    /\ pc' = "returned"
    /\ UNCHANGED <<op, start_time, end_time, calendar, local_offset, current, chatVars, buffer_time,
                   activity_type, raised, appVars>>

\* a total that leaves the buffer out of the search
TotalDurationUnpadded(d, buffer) == d

\* a total that leaves out the buffer after the event
TotalDurationBeforeOnly(d, buffer) ==
    IF buffer # <<>> THEN d + buffer[1] ELSE d

\* total_duration of find_individual_slot
TotalDuration(d, buffer) ==
    IF buffer # <<>> THEN d + buffer[1] + buffer[2] ELSE d

FindIndividualSlot ==
    /\ pc = "call"
    /\ op = "find_individual_slot"
    /\ \E d \in Durations, buffer \in Buffers, p \in Priorities,
          preferred_time \in Preferences, activity \in Activities, failed \in BOOLEAN :
          LET busy == GetBusyPeriods(failed)
              total_duration == TotalDuration(d, buffer)
              found == FindFreeSlots(start_time, end_time, busy, total_duration)
              filtered == FilterSlotsForIndividual(found, preferred_time, activity,
                                                   local_offset)
          IN  /\ duration' = d
              /\ buffer_time' = buffer
              /\ priority' = p
              /\ time_preference' = preferred_time
              /\ activity_type' = activity
              /\ api_failed' = failed
              /\ busy_ranges' = busy
              /\ duration_minutes' = total_duration
              /\ merged_busy' = MergedBusyOf(busy)
              /\ free_slots' = found
              /\ slots' = found
              /\ filtered_slots' = filtered
              /\ result' = RankIndividualSlots(filtered, activity, p)
    /\ pc' = "returned"
    /\ UNCHANGED <<op, start_time, end_time, calendar, local_offset, current, chatVars, raised, appVars>>

Next ==
    \/ FilterByTimePreferenceCall
    \/ FindCollaborativeSlot
    \/ FindIndividualSlot

Spec == Init /\ [][Next]_vars

----------------------------------------------------------------------------
(* The scoring functions called on their own *)

\* starts that differ in working hours, day part and weekday:
\* Wednesday 08:00, 13:00, 15:00, 18:00 and Saturday 10:00
RankWalls ==
    {2 * MinutesPerDay + h * MinutesPerHour : h \in {8, 13, 15, 18}}
    \cup {5 * MinutesPerDay + 10 * MinutesPerHour}
RankInputs ==
    {<<Naive(w), Naive(w + 30)>> : w \in RankWalls}
    \cup {<<Aware(w, 0), Aware(w + 30, 0)>> : w \in RankWalls}
RankLists == UNION {[1..n -> RankInputs] : n \in 0..MaxSlots}
RankPriorities == {1, 3, 5}

InitRank ==
    /\ pc = "call"
    /\ op \in {"_rank_slots", "_filter_slots_for_individual", "_rank_individual_slots"}
    /\ slots \in RankLists
    /\ priority \in IF op = "_filter_slots_for_individual" THEN {0} ELSE RankPriorities
    /\ time_preference \in
           IF op = "_filter_slots_for_individual" THEN Preferences ELSE {"no preference"}
    /\ activity_type \in IF op = "_rank_slots" THEN {"none"} ELSE Activities
    /\ local_offset \in IF op = "_rank_individual_slots" THEN {0} ELSE LocalOffsets
    /\ current = NoTime
    /\ request_message = <<>>
    /\ offered = <<>>
    /\ response = NoResponse
    /\ start_time = NoTime
    /\ end_time = NoTime
    /\ calendar = <<>>
    /\ busy_ranges = <<>>
    /\ duration_minutes = 0
    /\ merged_busy = <<>>
    /\ free_slots = <<>>
    /\ filtered_slots = <<>>
    /\ duration = 0
    /\ buffer_time = <<>>
    /\ api_failed = FALSE
    /\ result = <<>>
    /\ raised = "none"
    /\ current_params = NoParams
    /\ selected_slot = <<>>
    /\ events = <<>>

RankSlotsCall ==
    /\ pc = "call"
    /\ op = "_rank_slots"
    /\ pc' = "returned"
    /\ result' = RankSlots(slots, priority)
    /\ UNCHANGED <<op, start_time, end_time, calendar, busy_ranges, duration_minutes,
                   merged_busy, free_slots, slots, time_preference, local_offset, current, chatVars,
                   filtered_slots, duration, buffer_time, priority, activity_type,
                   api_failed, raised, appVars>>

FilterSlotsForIndividualCall ==
    /\ pc = "call"
    /\ op = "_filter_slots_for_individual"
    /\ pc' = "returned"
    /\ result' = FilterSlotsForIndividual(slots, time_preference, activity_type,
                                          local_offset)
    /\ UNCHANGED <<op, start_time, end_time, calendar, busy_ranges, duration_minutes,
                   merged_busy, free_slots, slots, time_preference, local_offset, current, chatVars,
                   filtered_slots, duration, buffer_time, priority, activity_type,
                   api_failed, raised, appVars>>

RankIndividualSlotsCall ==
    /\ pc = "call"
    /\ op = "_rank_individual_slots"
    /\ pc' = "returned"
    /\ result' = RankIndividualSlots(slots, activity_type, priority)
    /\ UNCHANGED <<op, start_time, end_time, calendar, busy_ranges, duration_minutes,
                   merged_busy, free_slots, slots, time_preference, local_offset, current, chatVars,
                   filtered_slots, duration, buffer_time, priority, activity_type,
                   api_failed, raised, appVars>>

NextRank ==
    \/ RankSlotsCall
    \/ FilterSlotsForIndividualCall
    \/ RankIndividualSlotsCall

SpecRank == InitRank /\ [][NextRank]_vars

----------------------------------------------------------------------------
(* Calls with a duration that is not positive or a window that ends no later
   than it starts. No function of SchedulerAlgorithm tests its parameters:
   the calls run the same code as any other call. *)

BadDurations == {-30, 0}

InitValidate ==
    /\ pc = "call"
    /\ \/ /\ op = "_find_free_slots"
          /\ start_time \in {Naive(t) : t \in Times}
          /\ end_time \in {Naive(t) : t \in Times}
          /\ busy_ranges \in CalendarLists
          /\ duration_minutes \in BadDurations \cup Durations
          /\ duration_minutes \in Durations => Utc(end_time) <= Utc(start_time)
       \/ /\ op \in {"find_collaborative_slot", "find_individual_slot"}
          /\ start_time = Naive(LastTime)
          /\ end_time \in {Naive(t) : t \in RequestStarts}
          /\ busy_ranges = <<>>
          /\ duration_minutes = 0
    /\ calendar = <<>>
    /\ merged_busy = <<>>
    /\ free_slots = <<>>
    /\ slots = <<>>
    /\ time_preference = "no preference"
    /\ local_offset = 0
    /\ current = NoTime
    /\ request_message = <<>>
    /\ offered = <<>>
    /\ response = NoResponse
    /\ filtered_slots = <<>>
    /\ duration = 0
    /\ buffer_time = <<>>
    /\ priority = 0
    /\ activity_type = "none"
    /\ api_failed = FALSE
    /\ result = <<>>
    /\ raised = "none"
    /\ current_params = NoParams
    /\ selected_slot = <<>>
    /\ events = <<>>

NextValidate ==
    \/ FindFreeSlotsCall
    \/ FindCollaborativeSlot
    \/ FindIndividualSlot

SpecValidate == InitValidate /\ [][NextValidate]_vars

----------------------------------------------------------------------------
(* The copy of SchedulerAlgorithm in src/scheduler_algorithm.py: its
   _find_free_slots sorts the list it is given (busy_ranges.sort), gives no
   tzinfo to the window or the busy periods, and has no branch for an empty
   calendar. The busy periods are all aware, as get_busy_periods builds them. *)

RootFindFreeSlots == "src/scheduler_algorithm.py:_find_free_slots"

\* subtracting or comparing a naive and an aware datetime raises TypeError
Mixed(a, b) == a.aware # b.aware

\* a copy without the check for time after the last busy period
RootFindFreeSlotsNoTrailing(start, end, busy, dur) ==
    LET sorted == SortByStart(busy)
        merged == MergeBusy(sorted)
        walk == GapWalk(merged, start, dur)
    IN  IF (merged # <<>> /\ Mixed(merged[1][1], start)) \/ Mixed(end, walk.current_time)
        THEN [busy_ranges |-> sorted, raised |-> "TypeError", free_slots |-> <<>>]
        ELSE [busy_ranges |-> sorted, raised |-> "none", free_slots |-> walk.free_slots]

\* the list the caller passed as it is after the call, the exception the call
\* ended with, and the slots it returned
RootFindFreeSlotsOf(start, end, busy, dur) ==
    LET sorted == SortByStart(busy)
        merged == MergeBusy(sorted)
        walk == GapWalk(merged, start, dur)
    IN  IF (merged # <<>> /\ Mixed(merged[1][1], start)) \/ Mixed(end, walk.current_time)
        THEN [busy_ranges |-> sorted, raised |-> "TypeError", free_slots |-> <<>>]
        ELSE [busy_ranges |-> sorted, raised |-> "none",
              free_slots |->
                  IF Fits(walk.current_time, end, dur)
                  THEN Append(walk.free_slots, <<walk.current_time, end>>)
                  ELSE walk.free_slots]

\* both copies are given a window, naive or in UTC, and a caller's list
InitCopies ==
    /\ pc = "call"
    /\ op \in {"_find_free_slots", RootFindFreeSlots}
    /\ \E aware \in BOOLEAN :
          /\ start_time \in {IF aware THEN Aware(t, 0) ELSE Naive(t) : t \in RequestStarts}
          /\ end_time = IF aware THEN Aware(LastTime, 0) ELSE Naive(LastTime)
    /\ busy_ranges \in BusyLists
    /\ duration_minutes \in Durations
    /\ calendar = <<>>
    /\ merged_busy = <<>>
    /\ free_slots = <<>>
    /\ slots = <<>>
    /\ time_preference = "no preference"
    /\ local_offset = 0
    /\ current = NoTime
    /\ request_message = <<>>
    /\ offered = <<>>
    /\ response = NoResponse
    /\ filtered_slots = <<>>
    /\ duration = 0
    /\ buffer_time = <<>>
    /\ priority = 0
    /\ activity_type = "none"
    /\ api_failed = FALSE
    /\ result = <<>>
    /\ raised = "none"
    /\ current_params = NoParams
    /\ selected_slot = <<>>
    /\ events = <<>>

RootFindFreeSlotsCall ==
    /\ pc = "call"
    /\ op = RootFindFreeSlots
    /\ pc' = "returned"
    /\ LET call == RootFindFreeSlotsOf(start_time, end_time, busy_ranges,
                                       duration_minutes)
       IN  /\ busy_ranges' = call.busy_ranges
           /\ merged_busy' = MergeBusy(call.busy_ranges)
           /\ raised' = call.raised
           /\ free_slots' = call.free_slots
           /\ result' = call.free_slots
    /\ UNCHANGED <<op, start_time, end_time, calendar, duration_minutes,
                   slots, time_preference, local_offset, current, chatVars, filtered_slots, duration,
                   buffer_time, priority, activity_type, api_failed, appVars>>

NextCopies ==
    \/ FindFreeSlotsCall
    \/ RootFindFreeSlotsCall

SpecCopies == InitCopies /\ [][NextCopies]_vars

----------------------------------------------------------------------------
(* SchedulerBot of src/cli_scheduler.py: its _find_free_slots sorts the busy
   periods it is given and walks them as they are, without merging them. *)

BotFindFreeSlots == "src/cli_scheduler.py:SchedulerBot._find_free_slots"

\* the sorted list, the exception the call ended with, and the slots returned
BotFindFreeSlotsOf(start, end, busy, dur) ==
    LET sorted == SortByStart(busy)
        walk == GapWalk(sorted, start, dur)
    IN  IF (sorted # <<>> /\ Mixed(sorted[1][1], start)) \/ Mixed(end, walk.current_time)
        THEN [busy_ranges |-> sorted, raised |-> "TypeError", free_slots |-> <<>>]
        ELSE [busy_ranges |-> sorted, raised |-> "none",
              free_slots |->
                  IF Fits(walk.current_time, end, dur)
                  THEN Append(walk.free_slots, <<walk.current_time, end>>)
                  ELSE walk.free_slots]

\* a window, naive or in UTC, and the busy periods of the free/busy query
InitBot ==
    /\ pc = "call"
    /\ op = BotFindFreeSlots
    /\ \E aware \in BOOLEAN :
          /\ start_time \in {IF aware THEN Aware(t, 0) ELSE Naive(t) : t \in RequestStarts}
          /\ end_time = IF aware THEN Aware(LastTime, 0) ELSE Naive(LastTime)
    /\ busy_ranges \in BusyLists
    /\ duration_minutes \in Durations
    /\ calendar = <<>>
    /\ merged_busy = <<>>
    /\ free_slots = <<>>
    /\ slots = <<>>
    /\ time_preference = "no preference"
    /\ local_offset = 0
    /\ current = NoTime
    /\ request_message = <<>>
    /\ offered = <<>>
    /\ response = NoResponse
    /\ filtered_slots = <<>>
    /\ duration = 0
    /\ buffer_time = <<>>
    /\ priority = 0
    /\ activity_type = "none"
    /\ api_failed = FALSE
    /\ result = <<>>
    /\ raised = "none"
    /\ current_params = NoParams
    /\ selected_slot = <<>>
    /\ events = <<>>

BotFindFreeSlotsCall ==
    /\ pc = "call"
    /\ op = BotFindFreeSlots
    /\ pc' = "returned"
    /\ LET call == BotFindFreeSlotsOf(start_time, end_time, busy_ranges,
                                      duration_minutes)
       IN  /\ busy_ranges' = call.busy_ranges
           /\ raised' = call.raised
           /\ free_slots' = call.free_slots
           /\ result' = call.free_slots
    /\ UNCHANGED <<op, start_time, end_time, calendar, merged_busy, duration_minutes,
                   slots, time_preference, local_offset, current, chatVars, filtered_slots, duration,
                   buffer_time, priority, activity_type, api_failed, appVars>>

NextBot == BotFindFreeSlotsCall

SpecBot == InitBot /\ [][NextBot]_vars

----------------------------------------------------------------------------
(* _find_free_slots given naive and aware datetimes side by side: every bound
   of the window and of the busy periods is naive or in UTC on its own *)

EitherWay(t) == {Naive(t), Aware(t, 0)}

EitherWayTimes == UNION {EitherWay(t) : t \in Times}
MixedBusyIntervals == {p \in EitherWayTimes \X EitherWayTimes : Utc(p[1]) < Utc(p[2])}
MixedBusyLists == UNION {[1..n -> MixedBusyIntervals] : n \in 0..MaxCalendar}

InitMixed ==
    /\ pc = "call"
    /\ op = "_find_free_slots"
    /\ start_time \in UNION {EitherWay(t) : t \in RequestStarts}
    /\ end_time \in EitherWay(LastTime)
    /\ busy_ranges \in MixedBusyLists
    /\ duration_minutes \in Durations
    /\ calendar = <<>>
    /\ merged_busy = <<>>
    /\ free_slots = <<>>
    /\ slots = <<>>
    /\ time_preference = "no preference"
    /\ local_offset = 0
    /\ current = NoTime
    /\ request_message = <<>>
    /\ offered = <<>>
    /\ response = NoResponse
    /\ filtered_slots = <<>>
    /\ duration = 0
    /\ buffer_time = <<>>
    /\ priority = 0
    /\ activity_type = "none"
    /\ api_failed = FALSE
    /\ result = <<>>
    /\ raised = "none"
    /\ current_params = NoParams
    /\ selected_slot = <<>>
    /\ events = <<>>

NextMixed == FindFreeSlotsCall

SpecMixed == InitMixed /\ [][NextMixed]_vars

----------------------------------------------------------------------------
(* The empty-calendar walk of _find_free_slots, one iteration of its while
   loop at a time: pc is "call" before the function runs, "while" at the test
   of the loop, "returned" after return free_slots. *)

\* minimum durations, with the ones no slot can be shorter than
WalkDurations == Durations \cup {0, -30}

\* a loop body that zeroes the minutes of the cursor itself
WalkBodySameHour(cursor, free, dur) ==
    [free_slots |-> Append(free, <<cursor, Plus(cursor, dur)>>),
     current |-> [cursor EXCEPT !.wall = (@ \div MinutesPerHour) * MinutesPerHour]]

\* the loop body: append (current, current + duration), move to the next hour
WalkBody(cursor, free, dur) ==
    [free_slots |-> Append(free, <<cursor, Plus(cursor, dur)>>),
     current |-> NextHour(cursor)]

\* the test of the loop: current + duration <= end_time
WalkContinues(cursor, end, dur) == Utc(cursor) + dur <= Utc(end)

\* any window of the grid, naive or in UTC, its end before its start included
InitWalk ==
    /\ pc = "call"
    /\ op = "_find_free_slots"
    /\ start_time \in EitherWayTimes
    /\ end_time \in EitherWayTimes
    /\ busy_ranges = <<>>
    /\ duration_minutes \in WalkDurations
    /\ calendar = <<>>
    /\ merged_busy = <<>>
    /\ free_slots = <<>>
    /\ slots = <<>>
    /\ time_preference = "no preference"
    /\ local_offset = 0
    /\ current = NoTime
    /\ request_message = <<>>
    /\ offered = <<>>
    /\ response = NoResponse
    /\ filtered_slots = <<>>
    /\ duration = 0
    /\ buffer_time = <<>>
    /\ priority = 0
    /\ activity_type = "none"
    /\ api_failed = FALSE
    /\ result = <<>>
    /\ raised = "none"
    /\ current_params = NoParams
    /\ selected_slot = <<>>
    /\ events = <<>>

\* the window gets its tzinfo, the branch of the empty calendar is entered
EmptyCalendarEnter ==
    /\ pc = "call"
    /\ op = "_find_free_slots"
    /\ busy_ranges = <<>>
    /\ pc' = "while"
    /\ start_time' = AssumeUtc(start_time)
    /\ end_time' = AssumeUtc(end_time)
    /\ current' = AssumeUtc(start_time)
    /\ UNCHANGED <<op, calendar, busy_ranges, duration_minutes, merged_busy,
                   free_slots, slots, time_preference, local_offset, filtered_slots,
                   duration, buffer_time, priority, activity_type, api_failed,
                   result, raised, appVars, chatVars>>

\* one iteration of the loop
EmptyCalendarIteration ==
    /\ pc = "while"
    /\ WalkContinues(current, end_time, duration_minutes)
    /\ LET body == WalkBody(current, free_slots, duration_minutes)
       IN  /\ free_slots' = body.free_slots
           /\ current' = body.current
    /\ UNCHANGED <<pc, op, start_time, end_time, calendar, busy_ranges,
                   duration_minutes, merged_busy, slots, time_preference,
                   local_offset, filtered_slots, duration, buffer_time, priority,
                   activity_type, api_failed, result, raised, appVars, chatVars>>

\* the test fails: return free_slots
EmptyCalendarReturn ==
    /\ pc = "while"
    /\ ~WalkContinues(current, end_time, duration_minutes)
    /\ pc' = "returned"
    /\ result' = free_slots
    /\ UNCHANGED <<op, start_time, end_time, calendar, busy_ranges,
                   duration_minutes, merged_busy, free_slots, slots,
                   time_preference, local_offset, current, chatVars, filtered_slots,
                   duration, buffer_time, priority, activity_type, api_failed,
                   raised, appVars>>

NextWalk ==
    \/ EmptyCalendarEnter
    \/ EmptyCalendarIteration
    \/ EmptyCalendarReturn

\* the interpreter runs the function to its end
SpecWalk == InitWalk /\ [][NextWalk]_vars /\ WF_vars(NextWalk)

----------------------------------------------------------------------------
(* The chat endpoint, process_chat_message of src/backend/app/api/chat.py.
   A message is the sequence of its characters, so that "x" in message is a
   search for a run of characters. The endpoint keeps nothing between two
   requests; the client shows the options of the last response. *)

\* most words of a typed message
MaxWords == 2

\* str.lower() on the letters
Lower(c) ==
    CASE c = "A" -> "a" [] c = "B" -> "b" [] c = "C" -> "c" [] c = "D" -> "d"
      [] c = "E" -> "e" [] c = "F" -> "f" [] c = "G" -> "g" [] c = "H" -> "h"
      [] c = "I" -> "i" [] c = "J" -> "j" [] c = "K" -> "k" [] c = "L" -> "l"
      [] c = "M" -> "m" [] c = "N" -> "n" [] c = "O" -> "o" [] c = "P" -> "p"
      [] c = "Q" -> "q" [] c = "R" -> "r" [] c = "S" -> "s" [] c = "T" -> "t"
      [] c = "U" -> "u" [] c = "V" -> "v" [] c = "W" -> "w" [] c = "X" -> "x"
      [] c = "Y" -> "y" [] c = "Z" -> "z" [] OTHER -> c
LowerCase(text) == [i \in 1..Len(text) |-> Lower(text[i])]

\* keyword in message
Contains(text, keyword) ==
    \E i \in 1..(Len(text) - Len(keyword) + 1) :
        SubSeq(text, i, i + Len(keyword) - 1) = keyword

\* the keywords the branches look for
Kw_schedule ==
    <<"s", "c", "h", "e", "d", "u", "l", "e">>
Kw_meeting ==
    <<"m", "e", "e", "t", "i", "n", "g">>
Kw_event ==
    <<"e", "v", "e", "n", "t">>
Kw_find ==
    <<"f", "i", "n", "d">>
Kw_suggest ==
    <<"s", "u", "g", "g", "e", "s", "t">>
Kw_time ==
    <<"t", "i", "m", "e">>
Kw_slot ==
    <<"s", "l", "o", "t">>
Kw_view ==
    <<"v", "i", "e", "w">>
Kw_calendar ==
    <<"c", "a", "l", "e", "n", "d", "a", "r">>
Kw_yes ==
    <<"y", "e", "s">>
Kw_no ==
    <<"n", "o">>
Kw_confirm ==
    <<"c", "o", "n", "f", "i", "r", "m">>
Kw_cancel ==
    <<"c", "a", "n", "c", "e", "l">>

\* the options of the follow-ups
OptionYes ==
    <<"Y", "e", "s">>
OptionNo ==
    <<"N", "o">>
OptionWork ==
    <<"W", "o", "r", "k">>
OptionExercise ==
    <<"E", "x", "e", "r", "c", "i", "s", "e">>
OptionPersonal ==
    <<"P", "e", "r", "s", "o", "n", "a", "l">>
OptionSchedule ==
    <<"S", "c", "h", "e", "d", "u", "l", "e", " ", "a", " ", "m", "e", "e",
      "t", "i", "n", "g", " ", "w", "i", "t", "h", " ", "s", "o", "m", "e",
      "o", "n", "e">>
OptionCreate ==
    <<"C", "r", "e", "a", "t", "e", " ", "a", " ", "p", "e", "r", "s", "o",
      "n", "a", "l", " ", "e", "v", "e", "n", "t">>
OptionFind ==
    <<"F", "i", "n", "d", " ", "a", " ", "g", "o", "o", "d", " ", "t", "i",
      "m", "e", " ", "f", "o", "r", " ", "a", "n", " ", "e", "v", "e", "n",
      "t", " ", "n", "e", "x", "t", " ", "w", "e", "e", "k">>
OptionView ==
    <<"V", "i", "e", "w", " ", "m", "y", " ", "u", "p", "c", "o", "m", "i",
      "n", "g", " ", "e", "v", "e", "n", "t", "s">>

DefaultOptions == <<OptionSchedule, OptionCreate, OptionFind, OptionView>>

\* the responses of the branches, in the order of the chain of tests
ScheduleResponse ==
    [type |-> "text",
     content |-> "I'll help you schedule an event. Let me ask a few questions to find the best time.",
     followUp |-> [type |-> "options",
                   content |-> "Is this a collaborative event requiring other participants?",
                   options |-> <<OptionYes, OptionNo>>],
     slots |-> <<>>]
\* four dummy slots: slot i starts i // 2 days and 9 + (i % 2) * 4 hours from
\* now and lasts one hour
SlotsResponse ==
    [type |-> "slots",
     content |-> "I found these available slots for you:",
     followUp |-> NoFollowUp,
     slots |-> [k \in 1..4 |-> [id |-> k - 1, days |-> (k - 1) \div 2,
                                hours |-> 9 + ((k - 1) % 2) * 4]]]
\* the content goes on with three dummy events
EventsResponse ==
    [type |-> "text",
     content |-> "Here are your upcoming events:",
     followUp |-> NoFollowUp,
     slots |-> <<>>]
YesResponse ==
    [type |-> "text",
     content |-> "Great! Let's set up a collaborative event. Who needs to attend?",
     followUp |-> [type |-> "text",
                   content |-> "Please enter email addresses of participants separated by commas.",
                   options |-> <<>>],
     slots |-> <<>>]
NoAnswerResponse ==
    [type |-> "text",
     content |-> "Perfect! Let's set up a personal event. What type of activity is this?",
     followUp |-> [type |-> "options",
                   content |-> "What type of activity is this?",
                   options |-> <<OptionWork, OptionExercise, OptionPersonal>>],
     slots |-> <<>>]
ConfirmResponse ==
    [type |-> "text",
     content |-> "Great! I've scheduled the event on your calendar. Is there anything else you'd like me to help with?",
     followUp |-> NoFollowUp,
     slots |-> <<>>]
CancelResponse ==
    [type |-> "text",
     content |-> "No problem. I've canceled the event creation. Is there anything else you'd like to do?",
     followUp |-> NoFollowUp,
     slots |-> <<>>]
DefaultResponse ==
    [type |-> "text",
     content |-> "I can help you schedule events, find available time slots, or view your calendar. What would you like to do?",
     followUp |-> [type |-> "options",
                   content |-> "Here are some things I can do:",
                   options |-> DefaultOptions],
     slots |-> <<>>]

\* the chain of tests of process_chat_message
ProcessChatMessage(text) ==
    LET message == LowerCase(text)
    IN  IF Contains(message, Kw_schedule) \/ Contains(message, Kw_meeting)
           \/ Contains(message, Kw_event)
        THEN ScheduleResponse
        ELSE IF (Contains(message, Kw_find) \/ Contains(message, Kw_suggest))
                /\ (Contains(message, Kw_time) \/ Contains(message, Kw_slot))
        THEN SlotsResponse
        ELSE IF Contains(message, Kw_view)
                /\ (Contains(message, Kw_event) \/ Contains(message, Kw_calendar))
        THEN EventsResponse
        ELSE IF message = Kw_yes THEN YesResponse
        ELSE IF message = Kw_no THEN NoAnswerResponse
        ELSE IF Contains(message, Kw_confirm) THEN ConfirmResponse
        ELSE IF Contains(message, Kw_cancel) THEN CancelResponse
        ELSE DefaultResponse

\* what a user types: one of these keywords, or some of them with spaces
\* between
Words == {Kw_schedule, Kw_find, Kw_time, Kw_view, Kw_calendar, Kw_confirm,
          Kw_cancel}
RECURSIVE Phrases(_)
Phrases(n) ==
    IF n = 1 THEN Words
    ELSE {p \o <<" ">> \o w : p \in Phrases(n - 1), w \in Words}
TypedMessages == UNION {Phrases(n) : n \in 1..MaxWords}

InitChat ==
    /\ pc = "call"
    /\ op = "process_chat_message"
    /\ start_time = NoTime
    /\ end_time = NoTime
    /\ busy_ranges = <<>>
    /\ duration_minutes = 0
    /\ calendar = <<>>
    /\ merged_busy = <<>>
    /\ free_slots = <<>>
    /\ slots = <<>>
    /\ time_preference = "no preference"
    /\ local_offset = 0
    /\ current = NoTime
    /\ request_message = <<>>
    /\ offered = <<>>
    /\ response = NoResponse
    /\ filtered_slots = <<>>
    /\ duration = 0
    /\ buffer_time = <<>>
    /\ priority = 0
    /\ activity_type = "none"
    /\ api_failed = FALSE
    /\ result = <<>>
    /\ raised = "none"
    /\ current_params = NoParams
    /\ selected_slot = <<>>
    /\ events = <<>>

\* POST /chat with a message the user typed
ChatTyped ==
    /\ op = "process_chat_message"
    /\ pc' = "returned"
    /\ \E text \in TypedMessages :
          /\ request_message' = text
          /\ response' = ProcessChatMessage(text)
    /\ offered' = response.followUp.options
    /\ UNCHANGED <<op, start_time, end_time, calendar, busy_ranges,
                   duration_minutes, merged_busy, free_slots, slots,
                   time_preference, local_offset, current, filtered_slots,
                   duration, buffer_time, priority, activity_type, api_failed,
                   result, raised, appVars>>

\* POST /chat with one of the options of the last response, which the user
\* picked
ChatOption ==
    /\ op = "process_chat_message"
    /\ pc' = "returned"
    /\ \E i \in 1..Len(response.followUp.options) :
          /\ request_message' = response.followUp.options[i]
          /\ response' = ProcessChatMessage(response.followUp.options[i])
    /\ offered' = response.followUp.options
    /\ UNCHANGED <<op, start_time, end_time, calendar, busy_ranges,
                   duration_minutes, merged_busy, free_slots, slots,
                   time_preference, local_offset, current, filtered_slots,
                   duration, buffer_time, priority, activity_type, api_failed,
                   result, raised, appVars>>

NextChat ==
    \/ ChatTyped
    \/ ChatOption

SpecChat == InitChat /\ [][NextChat]_vars

----------------------------------------------------------------------------
(* SchedulerApp._create_event (src/main.py) *)

\* d.replace(tzinfo=datetime.timezone.utc): the same clock reading, read as UTC
ReplaceUtc(d) == Aware(d.wall, 0)

\* one call of calendar_manager.create_event
Event(title, from, to) == [title |-> title, start_time |-> from, end_time |-> to]

\* the main event booked up to the end of the slot
CreateEventToSlotEnd(slot, params) ==
    <<Event("main", ReplaceUtc(slot[1]), ReplaceUtc(slot[2]))>>

\* the events _create_event creates, in the order it creates them
CreateEvent(slot, params) ==
    LET start_time_with_zone == ReplaceUtc(slot[1])
        real_end_time == Plus(start_time_with_zone, params.duration)
        before == params.buffer_time[1]
        after == params.buffer_time[2]
    IN  (IF ~params.collaborative /\ params.buffer_time # <<>>
         THEN (IF before > 0
               THEN <<Event("Buffer before", Plus(start_time_with_zone, -before),
                            start_time_with_zone)>>
               ELSE <<>>)
              \o (IF after > 0
                  THEN <<Event("Buffer after", real_end_time,
                               Plus(real_end_time, after))>>
                  ELSE <<>>)
         ELSE <<>>)
        \o <<Event("main", start_time_with_zone, real_end_time)>>

\* buffer_time as a flow, or a caller of _create_event, can have left it:
\* None (the empty tuple here) or (before, after)
BookBuffers == Buffers \cup {<<30, 0>>, <<0, 0>>}

InitBooking ==
    /\ pc = "call"
    /\ op = "_create_event"
    /\ selected_slot \in SlotInputs
    /\ current_params \in [collaborative : BOOLEAN, duration : Durations,
                            buffer_time : BookBuffers]
    /\ events = <<>>
    /\ start_time = NoTime
    /\ end_time = NoTime
    /\ calendar = <<>>
    /\ busy_ranges = <<>>
    /\ duration_minutes = 0
    /\ merged_busy = <<>>
    /\ free_slots = <<>>
    /\ slots = <<>>
    /\ time_preference = "no preference"
    /\ local_offset = 0
    /\ current = NoTime
    /\ request_message = <<>>
    /\ offered = <<>>
    /\ response = NoResponse
    /\ filtered_slots = <<>>
    /\ duration = 0
    /\ buffer_time = <<>>
    /\ priority = 0
    /\ activity_type = "none"
    /\ api_failed = FALSE
    /\ result = <<>>
    /\ raised = "none"

CreateEventCall ==
    /\ pc = "call"
    /\ op = "_create_event"
    /\ pc' = "returned"
    /\ events' = events \o CreateEvent(selected_slot, current_params)
    /\ UNCHANGED <<op, start_time, end_time, calendar, busy_ranges, duration_minutes,
                   merged_busy, free_slots, slots, time_preference, local_offset, current, chatVars,
                   filtered_slots, duration, buffer_time, priority, activity_type,
                   api_failed, result, raised, current_params, selected_slot>>

NextBooking == CreateEventCall

SpecBooking == InitBooking /\ [][NextBooking]_vars

----------------------------------------------------------------------------
(* SchedulerApp (src/main.py): event-creation flows, one after the other, on
   the scheduler of src/scheduler_algorithm.py. The events a flow books are
   busy periods of the calendar for the flows that follow. *)

\* the flows stop booking once MaxBooked of them have booked
MaxBooked == 2

\* _filter_by_time_preference of src/scheduler_algorithm.py: the clock of the
\* start itself, and no fallback
RootFilterByTimePreference(sl, preference) ==
    IF preference = "no preference" THEN sl
    ELSE SelectSeq(sl, LAMBDA slot :
             Matches(preference, TimeOfDay(slot[1]) \div MinutesPerHour))

\* _filter_slots_for_individual of src/scheduler_algorithm.py
RootFilterSlotsForIndividual(sl, preference, activity) ==
    LET time_filtered == RootFilterByTimePreference(sl, preference)
    IN  WithoutScore(SortByScore(
            [i \in 1..Len(time_filtered) |->
                <<time_filtered[i][1], time_filtered[i][2],
                  ActivityScore(time_filtered[i][1], activity)>>]))

\* the busy periods the free/busy query returns for the window: what is on
\* the calendar and meets the window, as aware datetimes
BusyOnCalendar(start, end) ==
    SelectSeq(calendar \o [i \in 1..Len(events) |->
                              <<events[i].start_time, events[i].end_time>>],
              LAMBDA b : Utc(b[1]) < Utc(end) /\ Utc(start) < Utc(b[2]))

\* no reset: the parameters of the flow before stay
KeepParams(params) == params

\* self.current_params = {}
ResetParams(params) == NoParams

\* what the user answers: a time preference and an activity; the priority is
\* the default of line 109
AppPreferences == {"no preference", "evening"}
AppActivities == {"work", "personal"}
DefaultPriority == 3

\* the window of the flows: one date range, naive as _parse_date_range returns it
AppStart == Naive(2 * MinutesPerDay + 510)
AppEnd == Naive(LastTime)

\* the flows that booked so far: each booked one main event
Bookings == Cardinality({i \in 1..Len(events) : events[i].title = "main"})

\* the answers of one flow: a collaborative flow asks for no activity and no buffer
Answers ==
    {a \in [is_collaborative : BOOLEAN, duration : Durations,
            preferred_time : AppPreferences,
            activity : AppActivities \cup {"none"}, buffer : Buffers,
            failed : BOOLEAN, choice : 0..1] :
        IF a.is_collaborative THEN a.activity = "none" /\ a.buffer = <<>>
        ELSE a.activity # "none"}

InitApp ==
    /\ pc = "call"
    /\ op = "handle_event_creation"
    /\ current_params = NoParams
    /\ events = <<>>
    /\ calendar = <<>>
    /\ selected_slot = <<>>
    /\ start_time = NoTime
    /\ end_time = NoTime
    /\ busy_ranges = <<>>
    /\ duration_minutes = 0
    /\ merged_busy = <<>>
    /\ free_slots = <<>>
    /\ slots = <<>>
    /\ time_preference = "no preference"
    /\ local_offset = 0
    /\ current = NoTime
    /\ request_message = <<>>
    /\ offered = <<>>
    /\ response = NoResponse
    /\ filtered_slots = <<>>
    /\ duration = 0
    /\ buffer_time = <<>>
    /\ priority = 0
    /\ activity_type = "none"
    /\ api_failed = FALSE
    /\ result = <<>>
    /\ raised = "none"

\* one run of handle_event_creation, from the reset of current_params to the
\* return to the menu: after an error of the scheduler, with no slot to offer,
\* after the user cancelled, or after _create_event
HandleEventCreation ==
    /\ op = "handle_event_creation"
    /\ Bookings < MaxBooked
    /\ pc' = "returned"
    /\ \E a \in Answers :
          LET params == [ResetParams(current_params) EXCEPT
                            !.collaborative = a.is_collaborative,
                            !.duration = a.duration,
                            !.buffer_time =
                                IF a.is_collaborative THEN @ ELSE a.buffer]
              busy == IF a.failed THEN <<>> ELSE BusyOnCalendar(AppStart, AppEnd)
              total_duration == TotalDuration(a.duration, a.buffer)
              call == RootFindFreeSlotsOf(AppStart, AppEnd, busy, total_duration)
              available_slots ==
                  IF call.raised # "none" THEN <<>>
                  ELSE IF a.is_collaborative
                  THEN RankSlots(RootFilterByTimePreference(call.free_slots,
                                                            a.preferred_time),
                                 DefaultPriority)
                  ELSE RankIndividualSlots(
                           RootFilterSlotsForIndividual(call.free_slots,
                                                        a.preferred_time, a.activity),
                           a.activity, DefaultPriority)
              booked == a.choice >= 1 /\ a.choice <= Len(available_slots)
          IN  /\ current_params' = params
              /\ start_time' = AppStart
              /\ end_time' = AppEnd
              /\ duration' = a.duration
              /\ priority' = DefaultPriority
              /\ time_preference' = a.preferred_time
              /\ activity_type' = a.activity
              /\ buffer_time' = a.buffer
              /\ api_failed' = a.failed
              /\ busy_ranges' = call.busy_ranges
              /\ duration_minutes' = total_duration
              /\ merged_busy' = MergeBusy(call.busy_ranges)
              /\ free_slots' = call.free_slots
              /\ slots' = call.free_slots
              /\ filtered_slots' = available_slots
              /\ result' = available_slots
              /\ raised' = "none"
              /\ selected_slot' = IF booked THEN available_slots[a.choice] ELSE <<>>
              /\ events' = IF booked
                           THEN events \o CreateEvent(available_slots[a.choice], params)
                           ELSE events
    /\ UNCHANGED <<op, calendar, local_offset, current, chatVars>>

NextApp == HandleEventCreation

SpecApp == InitApp /\ [][NextApp]_vars

----------------------------------------------------------------------------
(* Properties of _find_free_slots *)

Returned(name) == pc = "returned" /\ op = name

\* the window after both bounds were given a tzinfo
WinStart == Utc(AssumeUtc(start_time))
WinEnd == Utc(AssumeUtc(end_time))

SlotIx == 1..Len(free_slots)
SlotStart(i) == Utc(free_slots[i][1])
SlotEnd(i) == Utc(free_slots[i][2])

\* half-open intervals [a1, a2) and [b1, b2) share an instant
Intersect(a1, a2, b1, b2) ==
    /\ a1 < a2
    /\ b1 < b2
    /\ (IF a1 > b1 THEN a1 ELSE b1) < (IF a2 < b2 THEN a2 ELSE b2)

BusyInsideWindow ==
    \A i \in 1..Len(busy_ranges) :
        /\ WinStart <= Utc(busy_ranges[i][1])
        /\ Utc(busy_ranges[i][2]) <= WinEnd

BusyWellFormed ==
    \A i \in 1..Len(busy_ranges) : Utc(busy_ranges[i][1]) < Utc(busy_ranges[i][2])

\* C1: window containment: every slot (s, e) returned by _find_free_slots has
\* window.start <= s and e <= window.end, whatever the busy list is.
C1_WindowContainment ==
    Returned("_find_free_slots") =>
        \A i \in SlotIx : WinStart <= SlotStart(i) /\ SlotEnd(i) <= WinEnd

\* C2: no overlap: with a non-empty busy list of well-formed intervals, no
\* returned slot intersects a merged busy interval (or an input busy interval),
\* and no two returned slots intersect or are equal.
C2_NoOverlap ==
    (Returned("_find_free_slots") /\ busy_ranges # <<>> /\ BusyWellFormed) =>
        /\ \A i \in SlotIx : \A k \in 1..Len(merged_busy) :
               ~Intersect(SlotStart(i), SlotEnd(i),
                          Utc(merged_busy[k][1]), Utc(merged_busy[k][2]))
        /\ \A i \in SlotIx : \A k \in 1..Len(busy_ranges) :
               ~Intersect(SlotStart(i), SlotEnd(i),
                          Utc(busy_ranges[k][1]), Utc(busy_ranges[k][2]))
        /\ \A i \in SlotIx : \A j \in SlotIx :
               i # j => /\ free_slots[i] # free_slots[j]
                        /\ ~Intersect(SlotStart(i), SlotEnd(i), SlotStart(j), SlotEnd(j))

C2_Witness ==
    /\ Returned("_find_free_slots")
    /\ Len(busy_ranges) >= 2
    /\ Len(merged_busy) >= 1
    /\ Len(free_slots) >= 2

\* C3: duration guarantee: every returned slot is at least minDuration long,
\* in the empty-calendar branch and in the busy branch.
C3_DurationGuarantee ==
    Returned("_find_free_slots") =>
        \A i \in SlotIx : SlotEnd(i) - SlotStart(i) >= duration_minutes

C3_Witness ==
    /\ Returned("_find_free_slots")
    /\ busy_ranges # <<>>
    /\ \E i \in SlotIx : SlotEnd(i) - SlotStart(i) = duration_minutes
    /\ \E i \in SlotIx : SlotEnd(i) - SlotStart(i) > duration_minutes

BoundsOf(intervals) ==
    {Utc(intervals[i][1]) : i \in 1..Len(intervals)} \cup
    {Utc(intervals[i][2]) : i \in 1..Len(intervals)}

\* t lies in the union of the half-open intervals
Covers(intervals, t) ==
    \E i \in 1..Len(intervals) : Utc(intervals[i][1]) <= t /\ t < Utc(intervals[i][2])

\* C4: merge correctness: merged_busy is sorted by start, every start is
\* strictly after the previous end, and it covers exactly the instants the
\* input busy intervals cover.  (Both unions are unions of half-open intervals,
\* so they are equal as soon as they agree at every bound of every interval.)
C4_MergeCorrect ==
    (Returned("_find_free_slots") /\ busy_ranges # <<>>) =>
        /\ \A k \in 2..Len(merged_busy) :
               /\ Utc(merged_busy[k - 1][1]) <= Utc(merged_busy[k][1])
               /\ Utc(merged_busy[k - 1][2]) < Utc(merged_busy[k][1])
        /\ \A k \in 1..Len(merged_busy) : Utc(merged_busy[k][1]) < Utc(merged_busy[k][2])
        /\ \A t \in BoundsOf(merged_busy) \cup BoundsOf(busy_ranges) :
               Covers(merged_busy, t) <=> Covers(busy_ranges, t)

C4_Witness ==
    /\ Returned("_find_free_slots")
    /\ Len(busy_ranges) >= 2
    /\ Len(merged_busy) < Len(busy_ranges)
    /\ Utc(busy_ranges[1][1]) > Utc(busy_ranges[2][1])

\* C5: a window shorter than minDuration gives the empty sequence, for every
\* busy list.
C5_ShortWindowEmpty ==
    (Returned("_find_free_slots") /\ WinEnd - WinStart < duration_minutes) =>
        free_slots = <<>>

Free(t) ==
    /\ WinStart <= t
    /\ t < WinEnd
    /\ \A i \in 1..Len(busy_ranges) :
           ~(Utc(busy_ranges[i][1]) <= t /\ t < Utc(busy_ranges[i][2]))

Endpoints ==
    {WinStart, WinEnd} \cup {Utc(busy_ranges[i][1]) : i \in 1..Len(busy_ranges)}
                       \cup {Utc(busy_ranges[i][2]) : i \in 1..Len(busy_ranges)}

\* the maximal runs of free instants of the window that are long enough
MaximalGaps ==
    {g \in Endpoints \X Endpoints :
        /\ g[1] < g[2]
        /\ g[2] - g[1] >= duration_minutes
        /\ ~Free(g[1] - 1)
        /\ ~Free(g[2])
        /\ \A t \in g[1]..(g[2] - 1) : Free(t)}

\* C6: maximal free gaps: with a non-empty busy list inside the window, the
\* returned slots are exactly the maximal free runs of the window that are at
\* least minDuration long, each once.
C6_MaximalGaps ==
    (Returned("_find_free_slots") /\ busy_ranges # <<>> /\ BusyInsideWindow) =>
        /\ {<<SlotStart(i), SlotEnd(i)>> : i \in SlotIx} = MaximalGaps
        /\ Len(free_slots) = Cardinality(MaximalGaps)

C6_Witness ==
    /\ Returned("_find_free_slots")
    /\ Len(busy_ranges) >= 2
    /\ Len(merged_busy) < Len(busy_ranges)
    /\ BusyInsideWindow
    /\ Len(free_slots) >= 1
    /\ \E t \in Endpoints : Free(t) /\ \A i \in SlotIx : ~(SlotStart(i) <= t /\ t < SlotEnd(i))

\* the first whole hour strictly after a datetime, on its own clock
HourAfter(d) == ((d.wall \div MinutesPerHour) + 1) * MinutesPerHour - d.off

\* C7: empty-calendar walk: the first slot starts at window.start, every slot is
\* [cursor, cursor + minDuration), each later cursor is the first whole hour
\* strictly after the one before, and the walk goes on exactly while
\* cursor + minDuration <= window.end.
C7_EmptyWalk ==
    (Returned("_find_free_slots") /\ busy_ranges = <<>>) =>
        /\ (free_slots # <<>>) <=> (WinStart + duration_minutes <= WinEnd)
        /\ free_slots # <<>> => free_slots[1][1] = AssumeUtc(start_time)
        /\ \A i \in SlotIx :
               /\ free_slots[i][2] = Plus(free_slots[i][1], duration_minutes)
               /\ SlotStart(i) + duration_minutes <= WinEnd
        /\ \A i \in 2..Len(free_slots) :
               /\ free_slots[i][1].wall % MinutesPerHour = 0
               /\ SlotStart(i) = HourAfter(free_slots[i - 1][1])
               /\ SlotStart(i) - SlotStart(i - 1) <= MinutesPerHour
        /\ free_slots # <<>> =>
               HourAfter(Last(free_slots)[1]) + duration_minutes > WinEnd

C7_Witness ==
    /\ Returned("_find_free_slots")
    /\ busy_ranges = <<>>
    /\ Len(free_slots) >= 3
    /\ free_slots[1][1].wall % MinutesPerHour # 0
    /\ SlotStart(3) > SlotEnd(2)

\* C8: result ordering: the returned slots are in ascending order of start.
C8_Ascending ==
    Returned("_find_free_slots") =>
        \A i \in SlotIx : \A j \in SlotIx : i < j => SlotStart(i) <= SlotStart(j)

C8_Witness ==
    /\ Returned("_find_free_slots")
    /\ Len(merged_busy) >= 2
    /\ Utc(busy_ranges[1][1]) > Utc(busy_ranges[2][1])
    /\ Len(free_slots) >= 2

----------------------------------------------------------------------------
(* Properties of _filter_by_time_preference *)

DayParts == {"morning", "afternoon", "evening"}

\* the day-parts as the specification words them
InDayPart(preference, hour) ==
    \/ preference = "morning" /\ 5 <= hour /\ hour < 12
    \/ preference = "afternoon" /\ 12 <= hour /\ hour < 17
    \/ preference = "evening" /\ 17 <= hour /\ hour < 23

SlotInDayPart(slot) == InDayPart(time_preference, StartHour(slot[1], local_offset))

NoneInDayPart == \A i \in 1..Len(slots) : ~SlotInDayPart(slots[i])

\* the filter ran, alone or as the second step of find_collaborative_slot:
\* slots is what it was given and filtered_slots what it returned
Filtered == Returned("_filter_by_time_preference") \/ Returned("find_collaborative_slot")

\* C9: preference fallback: the filter never turns a non-empty slot sequence
\* into an empty one, whatever the preference; so a request returns nothing
\* only when the free-slot search found nothing.
C9_PreferenceFallback ==
    /\ (Filtered /\ slots # <<>>) => filtered_slots # <<>>
    /\ (Returned("find_collaborative_slot") \/ Returned("find_individual_slot")) =>
           (result = <<>> => free_slots = <<>>)

C9_Witness ==
    /\ Returned("find_collaborative_slot")
    /\ time_preference \in DayParts
    /\ Len(free_slots) >= 2
    /\ NoneInDayPart
    /\ Len(result) = 1

\* C10 as stated: for a day-part preference, if no input slot starts in the
\* day-part the filter returns exactly the first input slot, otherwise exactly
\* the input slots that start in the day-part.
C10_FallbackContent_AsStated ==
    (Filtered /\ time_preference \in DayParts) =>
        IF NoneInDayPart
        THEN Len(filtered_slots) = 1 /\ filtered_slots[1] = slots[1]
        ELSE filtered_slots = SelectSeq(slots, SlotInDayPart)

\* C10 (amended): for a day-part preference and a non-empty input, if no input
\* slot starts in the day-part the filter returns exactly the first input slot;
\* otherwise, and for an empty input, it returns exactly the input slots that
\* start in the day-part.
C10_FallbackContent ==
    (Filtered /\ time_preference \in DayParts) =>
        IF NoneInDayPart /\ slots # <<>>
        THEN filtered_slots = <<slots[1]>>
        ELSE filtered_slots = SelectSeq(slots, SlotInDayPart)

C10_Witness ==
    /\ Returned("_filter_by_time_preference")
    /\ time_preference = "morning"
    /\ Len(slots) >= 2
    /\ slots[1] # slots[2]
    /\ NoneInDayPart
    /\ filtered_slots = <<slots[1]>>

----------------------------------------------------------------------------
(* Properties of the scoring functions *)

\* the slots with their scores, one group of equal scores after the other from
\* the highest score down, each group in the order of the input
RECURSIVE GroupsFrom(_, _)
GroupsFrom(scored, values) ==
    IF values = {} THEN <<>>
    ELSE LET top == CHOOSE v \in values : \A w \in values : w <= v
         IN  SelectSeq(scored, LAMBDA x : x[2] = top)
             \o GroupsFrom(scored, values \ {top})

\* sl in non-increasing order of score[i], equal scores in the order of sl
StableByScore(sl, score) ==
    LET scored == [i \in 1..Len(sl) |-> <<sl[i], score[i]>>]
        groups == GroupsFrom(scored, {score[i] : i \in 1..Len(sl)})
    IN  [i \in 1..Len(groups) |-> groups[i][1]]

RankScores(sl) == [i \in 1..Len(sl) |-> RankScore(sl[i][1], priority)]
ActivityScores(sl) == [i \in 1..Len(sl) |-> ActivityScore(sl[i][1], activity_type)]
TimeFiltered == FilterByTimePreference(slots, time_preference, local_offset)

\* C11: _rank_slots and _filter_slots_for_individual return a value fixed by
\* their input: the scored slots in non-increasing order of score, and slots of
\* equal score in the relative order they had in the input.
C11_StableTieBreak ==
    /\ Returned("_rank_slots") => result = StableByScore(slots, RankScores(slots))
    /\ Returned("_filter_slots_for_individual") =>
           result = StableByScore(TimeFiltered, ActivityScores(TimeFiltered))

\* two different slots of equal score came back in their input order, from
\* either function
C11_Witness ==
    /\ pc = "returned"
    /\ op \in {"_rank_slots", "_filter_slots_for_individual"}
    /\ Len(slots) = 2
    /\ slots[1] # slots[2]
    /\ result = slots
    /\ op = "_rank_slots" => RankScores(slots)[1] = RankScores(slots)[2]
    /\ op = "_filter_slots_for_individual" =>
           /\ activity_type = "work"
           /\ time_preference = "afternoon"
           /\ ActivityScores(slots)[1] = ActivityScores(slots)[2]

----------------------------------------------------------------------------
(* Error handling *)

\* the duration the caller asked for: the argument of _find_free_slots, or the
\* duration of the request
AskedDuration == IF op = "_find_free_slots" THEN duration_minutes ELSE duration

\* C12: a call of find_collaborative_slot, find_individual_slot or
\* _find_free_slots with a duration that is not positive, or with a window whose
\* end is not after its start, ends with a validation error and returns no slots.
C12_InvalidRejected ==
    (/\ pc = "returned"
     /\ op \in {"_find_free_slots", "find_collaborative_slot", "find_individual_slot"}
     /\ (AskedDuration <= 0 \/ WinEnd <= WinStart))
    => (raised = "ValidationError" /\ result = <<>>)

\* C13: a time_preference that is none of the recognized values is treated as
\* 'no preference': _filter_by_time_preference returns the whole input sequence
\* unchanged.
C13_UnrecognizedIsNoPreference ==
    (Filtered /\ time_preference \notin DayParts \cup {"no preference"})
    => filtered_slots = slots

\* what the request returns when the calendar holds no busy period
EmptyCalendarResult ==
    LET found == FindFreeSlots(start_time, end_time, <<>>, duration_minutes)
    IN  IF op = "find_collaborative_slot"
        THEN RankSlots(FilterByTimePreference(found, time_preference, local_offset),
                       priority)
        ELSE RankIndividualSlots(
                 FilterSlotsForIndividual(found, time_preference, activity_type,
                                          local_offset),
                 activity_type, priority)

Requested == pc = "returned" /\ op \in {"find_collaborative_slot", "find_individual_slot"}

\* C14: when the free/busy query raises, get_busy_periods delivers no busy
\* period for the requested calendar, and the request does not raise: it returns
\* what it returns for an empty calendar over the same window, the hour walk
\* from the window's start.
C14_FailureMeansFree ==
    (Requested /\ api_failed) =>
        /\ busy_ranges = <<>>
        /\ raised = "none"
        /\ free_slots = EmptyWalk(AssumeUtc(start_time), AssumeUtc(end_time),
                                  duration_minutes)
        /\ result = EmptyCalendarResult

\* the query failed on a calendar that holds a busy period, and the request
\* returned slots, one of them inside that busy period
C14_Witness ==
    /\ Requested
    /\ api_failed
    /\ calendar # <<>>
    /\ result # <<>>
    /\ \E i \in 1..Len(result) :
           Intersect(Utc(result[i][1]), Utc(result[i][2]),
                     Utc(calendar[1][1]), Utc(calendar[1][2]))

----------------------------------------------------------------------------
(* Scores as the specification words them: from the local time-of-day of the
   start, the time that _filter_by_time_preference reads *)

\* minutes since local midnight: the start converted to the system zone when it
\* carries an offset, its own clock otherwise
LocalTimeOfDay(start) ==
    IF start.aware THEN (Utc(start) + local_offset) % MinutesPerDay
    ELSE TimeOfDay(start)

\* times 300, as RankScore
LocalRankScore(start) ==
    (IF 9 * MinutesPerHour <= LocalTimeOfDay(start)
        /\ LocalTimeOfDay(start) < 17 * MinutesPerHour
     THEN 15 ELSE 10)
    * (IF Weekday(start) < 5 THEN 12 ELSE 10)
    * priority

\* times 10, as ActivityScore
LocalActivityScore(start) ==
    IF activity_type = "exercise"
    THEN (IF LocalTimeOfDay(start) < 12 * MinutesPerHour THEN 15 ELSE 10)
    ELSE IF activity_type = "work"
    THEN (IF 9 * MinutesPerHour <= LocalTimeOfDay(start)
             /\ LocalTimeOfDay(start) < 17 * MinutesPerHour
          THEN 15 ELSE 8)
    ELSE (IF LocalTimeOfDay(start) >= 17 * MinutesPerHour \/ Weekday(start) >= 5
          THEN 15 ELSE 10)

\* out holds the slots of inp, each as often as inp does
SameSlots(out, inp) ==
    /\ Len(out) = Len(inp)
    /\ \A i \in 1..Len(inp) :
           Cardinality({j \in 1..Len(out) : out[j] = inp[i]})
           = Cardinality({j \in 1..Len(inp) : inp[j] = inp[i]})

\* C15: _rank_slots scores a slot 1.0, times 1.5 when the local time-of-day of
\* its start is in [09:00, 17:00), times 1.2 when its start is on Monday to
\* Friday, times priority / 3.0, and returns the slots in non-increasing order
\* of that score.
C15_CollaborativeScoring ==
    Returned("_rank_slots") =>
        /\ SameSlots(result, slots)
        /\ \A i, j \in 1..Len(result) :
               i < j => LocalRankScore(result[i][1]) >= LocalRankScore(result[j][1])

\* C16: _filter_slots_for_individual scores every slot the time preference
\* kept from the local time-of-day of its start (exercise: 1.5 before 12:00,
\* else 1.0; work: 1.5 in [09:00, 17:00), else 0.8; other: 1.5 from 17:00 or on
\* Saturday or Sunday, else 1.0) and returns them in non-increasing order of
\* that score: a work slot starting 10:00 local precedes one starting 08:00 local.
C16_IndividualScoring ==
    Returned("_filter_slots_for_individual") =>
        /\ SameSlots(result, TimeFiltered)
        /\ \A i, j \in 1..Len(result) :
               i < j => LocalActivityScore(result[i][1])
                        >= LocalActivityScore(result[j][1])

----------------------------------------------------------------------------
(* Properties of find_individual_slot *)

\* what the request in hand returns when its priority is prio: the priority
\* is passed to _rank_individual_slots alone (lines 101-132), so the slots
\* found and filtered are those of the request in hand
IndividualResult(prio) == RankIndividualSlots(filtered_slots, activity_type, prio)

\* C17: _rank_individual_slots returns its input unchanged, so
\* find_individual_slot returns the slots of _filter_slots_for_individual as they
\* are, and the same sequence for every priority from 1 to 5.
C17_PriorityPassThrough ==
    Returned("find_individual_slot") =>
        /\ result = filtered_slots
        /\ \A prio \in 1..5 : IndividualResult(prio) = result

\* an urgent individual request returned two slots in an order that the
\* ranking of _rank_slots would have changed
C17_Witness ==
    /\ Returned("find_individual_slot")
    /\ priority = 5
    /\ Len(result) >= 2
    /\ RankSlots(result, priority) # result

\* C18: the minimum duration that find_individual_slot passes to the free-slot
\* search is duration + before + after when a buffer (before, after) is given,
\* a buffer with a zero component included, and the duration itself when no
\* buffer is given.
C18_BufferAdditivity ==
    Returned("find_individual_slot") =>
        /\ buffer_time = <<>> => duration_minutes = duration
        /\ buffer_time # <<>> =>
               duration_minutes - duration = buffer_time[1] + buffer_time[2]
        /\ \A i \in 1..Len(free_slots) :
               Utc(free_slots[i][2]) - Utc(free_slots[i][1]) >= duration_minutes

\* a request with the buffer (0, 30) searched for 30 minutes more than its
\* duration and found a slot
C18_Witness ==
    /\ Returned("find_individual_slot")
    /\ buffer_time # <<>>
    /\ buffer_time[1] = 0
    /\ buffer_time[2] > 0
    /\ duration_minutes = duration + buffer_time[2]
    /\ free_slots # <<>>

----------------------------------------------------------------------------
(* Properties of _create_event *)

\* the events with that title, as pairs of instants
Booked(title) ==
    {<<Utc(events[i].start_time), Utc(events[i].end_time)>> :
        i \in {j \in 1..Len(events) : events[j].title = title}}

TimesBooked(title) == Cardinality({j \in 1..Len(events) : events[j].title = title})

\* C19: for a chosen slot that starts at s, _create_event books the main event
\* on [s, s + duration), never extended by a buffer; it books one separate
\* 'Buffer before' event on [s - before, s) exactly when the request is
\* individual and before > 0, and one separate 'Buffer after' event on
\* [s + duration, s + duration + after) exactly when the request is individual
\* and after > 0.
C19_BufferBoundaries ==
    Returned("_create_event") =>
        LET s == Utc(AssumeUtc(selected_slot[1]))
            d == current_params.duration
            individual == ~current_params.collaborative
            buffered == current_params.buffer_time # <<>>
            before == IF buffered THEN current_params.buffer_time[1] ELSE 0
            after == IF buffered THEN current_params.buffer_time[2] ELSE 0
        IN  /\ TimesBooked("main") = 1
            /\ Booked("main") = {<<s, s + d>>}
            /\ TimesBooked("Buffer before") = IF individual /\ before > 0 THEN 1 ELSE 0
            /\ Booked("Buffer before") \subseteq {<<s - before, s>>}
            /\ TimesBooked("Buffer after") = IF individual /\ after > 0 THEN 1 ELSE 0
            /\ Booked("Buffer after") \subseteq {<<s + d, s + d + after>>}
            /\ Len(events) = TimesBooked("main") + TimesBooked("Buffer before")
                             + TimesBooked("Buffer after")

\* an individual request with a buffer on both sides booked three events, the
\* main one shorter than the slot it was given
C19_Witness ==
    /\ Returned("_create_event")
    /\ ~current_params.collaborative
    /\ Len(events) = 3
    /\ Utc(selected_slot[2]) - Utc(selected_slot[1]) # current_params.duration
    /\ \E e \in Booked("Buffer before") : e[1] < e[2]
    /\ \E e \in Booked("Buffer after") : e[1] < e[2]

----------------------------------------------------------------------------
(* Frame of _find_free_slots *)

\* C20: _find_free_slots, in either copy of SchedulerAlgorithm, does not modify
\* the busy-interval list its caller passed: after the call the list has the
\* same elements in the same order as before.
C20_CallerListUntouched == [][busy_ranges' = busy_ranges]_vars

----------------------------------------------------------------------------
(* Padding of individual requests *)

\* C21: every slot that find_individual_slot returns for a request with the
\* buffer (before, after) is at least duration + before + after long, whatever
\* the time preference and the activity type, the preference fallback included.
C21_PaddingInSearch ==
    (Returned("find_individual_slot") /\ buffer_time # <<>>) =>
        \A i \in 1..Len(result) :
            Utc(result[i][2]) - Utc(result[i][1])
            >= duration + buffer_time[1] + buffer_time[2]

\* a request with a buffer on both sides, on a calendar with a busy period,
\* whose preference no slot met: the fallback returned one padded slot
C21_Witness ==
    /\ Returned("find_individual_slot")
    /\ buffer_time # <<>>
    /\ buffer_time[1] > 0
    /\ buffer_time[2] > 0
    /\ busy_ranges # <<>>
    /\ time_preference \in DayParts
    /\ NoneInDayPart
    /\ Len(slots) >= 1
    /\ Len(result) = 1

----------------------------------------------------------------------------
(* Naive and aware datetimes in _find_free_slots *)

\* the bounds of the intervals of a sequence
BoundsIn(intervals) ==
    {intervals[i][1] : i \in 1..Len(intervals)}
    \cup {intervals[i][2] : i \in 1..Len(intervals)}

\* b is the datetime x with a tzinfo: x itself when x is aware, the clock
\* reading of x in UTC when x is naive
ReadAsUtc(x, b) == b.aware /\ b.wall = x.wall /\ b.off = x.off

----------------------------------------------------------------------------
(* Properties of the event-creation flows *)

\* the events that a step put on the calendar
Added == SubSeq(events', Len(events) + 1, Len(events'))

\* the bounds of the events of a sequence with that title, as instants
BookedIn(evts, title) ==
    {<<Utc(evts[i].start_time), Utc(evts[i].end_time)>> :
        i \in {j \in 1..Len(evts) : evts[j].title = title}}

\* C23: every run of handle_event_creation starts from empty parameters:
\* after it current_params holds what this flow asked and nothing of the flows
\* before (no buffer after a collaborative flow), and what the flow books is
\* fixed by its own answers: a main event of its own duration at the start of
\* the slot selected, buffer events only in an individual flow that asked for
\* them, and no buffer event in a collaborative flow, whatever was booked before.
C23_NoAccumulation ==
    [][LET s == Utc(ReplaceUtc(selected_slot'[1]))
           buffered == activity_type' # "none" /\ buffer_time' # <<>>
       IN  /\ current_params' = [collaborative |-> activity_type' = "none",
                                  duration |-> duration',
                                  buffer_time |-> buffer_time']
           /\ activity_type' = "none" => buffer_time' = <<>>
           /\ selected_slot' = <<>> => Added = <<>>
           /\ selected_slot' # <<>> =>
                  /\ BookedIn(Added, "main") = {<<s, s + duration'>>}
                  /\ Len(Added) = 1 + (IF buffered /\ buffer_time'[1] > 0 THEN 1 ELSE 0)
                                    + (IF buffered /\ buffer_time'[2] > 0 THEN 1 ELSE 0)
                  /\ ~buffered => \A i \in 1..Len(Added) : Added[i].title = "main"
      ]_vars

\* a collaborative booking followed a buffered individual booking: the
\* calendar holds the three events of the first and one main event more
C23_Witness ==
    /\ Returned("handle_event_creation")
    /\ current_params.collaborative
    /\ selected_slot # <<>>
    /\ Len(events) = 4
    /\ events[1].title = "Buffer before"
    /\ events[2].title = "Buffer after"
    /\ events[3].title = "main"
    /\ events[4].title = "main"

\* the events of the flow that just booked: the main event, the last on the
\* calendar, and the buffer events created before it
OwnEvents ==
    LET n == 1 + (IF buffer_time # <<>> /\ buffer_time[1] > 0 THEN 1 ELSE 0)
               + (IF buffer_time # <<>> /\ buffer_time[2] > 0 THEN 1 ELSE 0)
    IN  SubSeq(events, Len(events) - n + 1, Len(events))

\* C24: for an individual request with a buffer, the buffer-before event, the
\* main event and the buffer-after event that _create_event books for a slot
\* returned by find_individual_slot all lie inside that slot, and so none of
\* them overlaps a busy interval.
C24_BookedInsideSlot ==
    (/\ Returned("handle_event_creation")
     /\ selected_slot # <<>>
     /\ activity_type # "none"
     /\ buffer_time # <<>>)
    => \A i \in 1..Len(OwnEvents) :
           /\ Utc(AssumeUtc(selected_slot[1])) <= Utc(OwnEvents[i].start_time)
           /\ Utc(OwnEvents[i].end_time) <= Utc(AssumeUtc(selected_slot[2]))
           /\ \A j \in 1..Len(busy_ranges) :
                  ~Intersect(Utc(OwnEvents[i].start_time), Utc(OwnEvents[i].end_time),
                             Utc(busy_ranges[j][1]), Utc(busy_ranges[j][2]))

----------------------------------------------------------------------------
(* Priority in _rank_slots *)

\* C25: the order in which _rank_slots returns the slots does not depend on
\* the priority: every priority from 1 to 5 gives the order of the call in hand.
C25_OrderWhateverPriority ==
    Returned("_rank_slots") =>
        \A prio \in 1..5 : RankSlots(slots, prio) = result

\* an urgent call put a slot in working hours before the slot that came first
\* in its input
C25_Witness ==
    /\ Returned("_rank_slots")
    /\ priority = 5
    /\ Len(slots) = 2
    /\ result = <<slots[2], slots[1]>>
    /\ result # slots

----------------------------------------------------------------------------
(* Algebra of _filter_by_time_preference *)

\* a can be had from b by leaving elements out
RECURSIVE IsSubsequence(_, _)
IsSubsequence(a, b) ==
    IF a = <<>> THEN TRUE
    ELSE IF b = <<>> THEN FALSE
    ELSE IF Head(a) = Head(b) THEN IsSubsequence(Tail(a), Tail(b))
    ELSE IsSubsequence(a, Tail(b))

\* C26: _filter_by_time_preference is idempotent and keeps the order: the
\* filter applied to its own output, with the same preference, returns that
\* output, and its output is a subsequence of its input.
C26_IdempotentInOrder ==
    Returned("_filter_by_time_preference") =>
        /\ FilterByTimePreference(filtered_slots, time_preference, local_offset)
           = filtered_slots
        /\ IsSubsequence(filtered_slots, slots)

\* a day-part preference kept both of two different slots, or fell back to
\* the first of them
C26_Witness ==
    /\ Returned("_filter_by_time_preference")
    /\ time_preference \in DayParts
    /\ Len(slots) = 2
    /\ slots[1] # slots[2]
    /\ \/ filtered_slots = slots
       \/ NoneInDayPart /\ filtered_slots = <<slots[1]>>

----------------------------------------------------------------------------
(* The two copies of _find_free_slots on the same aware input *)

\* the window and every busy period carry a tzinfo, and the calendar is not empty
AwareAndBusy ==
    /\ start_time.aware
    /\ end_time.aware
    /\ busy_ranges # <<>>
    /\ \A i \in 1..Len(busy_ranges) : busy_ranges[i][1].aware /\ busy_ranges[i][2].aware

\* C27: on offset-aware inputs with a non-empty busy list, _find_free_slots of
\* src/scheduler_algorithm.py and of src/backend/scheduler_algorithm.py return
\* the same sequence of slots: whichever copy was called, neither raises and
\* what was returned is what each copy computes from the call's arguments.
C27_CopiesAgree ==
    (pc = "returned" /\ op \in {"_find_free_slots", RootFindFreeSlots} /\ AwareAndBusy) =>
        LET call == RootFindFreeSlotsOf(start_time, end_time, busy_ranges,
                                        duration_minutes)
        IN  /\ raised = "none"
            /\ call.raised = "none"
            /\ call.free_slots
               = FindFreeSlots(start_time, end_time, busy_ranges, duration_minutes)
            /\ result = call.free_slots

\* the copy of src/scheduler_algorithm.py merged two overlapping busy periods
\* of an aware call and returned a slot
C27_Witness ==
    /\ Returned(RootFindFreeSlots)
    /\ AwareAndBusy
    /\ Len(busy_ranges) = 2
    /\ Len(merged_busy) = 1
    /\ result # <<>>

----------------------------------------------------------------------------
(* The free slots of SchedulerBot *)

\* C28: SchedulerBot._find_free_slots, which sorts the busy intervals without
\* merging them, returns no slot that overlaps a busy interval, whether the
\* busy intervals are disjoint, overlapping or nested.
C28_BotNoOverlap ==
    Returned(BotFindFreeSlots) =>
        \A i \in 1..Len(result) : \A k \in 1..Len(busy_ranges) :
            ~Intersect(Utc(result[i][1]), Utc(result[i][2]),
                       Utc(busy_ranges[k][1]), Utc(busy_ranges[k][2]))

----------------------------------------------------------------------------
(* Termination of the empty-calendar walk *)

\* C29: the empty-calendar walk of _find_free_slots terminates for every
\* window and minimum duration: every iteration moves the cursor strictly
\* forward, the loop is left exactly when cursor + duration exceeds the end
\* of the window, and the function returns.
C29_WalkTerminates ==
    /\ [][pc = "while" =>
            /\ pc' = "while" => Utc(current') > Utc(current)
            /\ pc' = "returned" <=>
                   Utc(current) + duration_minutes > Utc(end_time)]_vars
    /\ [](pc = "returned" =>
            /\ Utc(current) + duration_minutes > Utc(end_time)
            /\ result = EmptyWalk(start_time, end_time, duration_minutes))
    /\ <>(pc = "returned")

\* the loop ran at least twice, moved the cursor by more than an hour, and
\* the function returned
C29_Witness ==
    /\ pc = "returned"
    /\ current # NoTime
    /\ Len(result) >= 2
    /\ Utc(current) > Utc(start_time) + MinutesPerHour

----------------------------------------------------------------------------
(* Routing of the options of the default response *)

\* the handler an option of the default response asks for
Intended(text) ==
    IF text = OptionFind THEN SlotsResponse
    ELSE IF text = OptionView THEN EventsResponse
    ELSE ScheduleResponse

\* C30: each option the default response of /chat offers, sent back as the
\* message, reaches the handler of its intent: the slot-finding response for
\* 'Find a good time for an event next week', the event listing for 'View my
\* upcoming events', the scheduling dialogue for the two others.
C30_OptionsReachHandlers ==
    (Returned("process_chat_message") /\ offered = DefaultOptions
        /\ \E i \in 1..Len(offered) : request_message = offered[i]) =>
        response = Intended(request_message)

============================================================================
